---- MODULE Spec2Model ----
(***************************************************************************)
(* Adaptive time-range partitioning scheduler of the sync node:            *)
(* Controller (bootstrap, split materialization), Queue, Pool (Manager),   *)
(* and the Worker grain -> process -> release state machine, run against   *)
(* a time-ordered paginated record feed.                                   *)
(*                                                                         *)
(* Dates (ISO strings in the code) are naturals 0..MaxDate; the feed is a  *)
(* sequence of updatedAt dates sorted ascending, a record is its index.    *)
(* A response is [ok, records, continuation]; continuation 0 is "none"     *)
(* (the code tests the cursor for truthiness, '' is the empty cursor).     *)
(***************************************************************************)
EXTENDS Integers, Sequences, FiniteSets, TLC

\* ---------------------------------------------------------------- bounds
MaxDate == 4
MaxFeed == 5
MaxFail == 1
NumWorkers == 2
MaxTailFeed == 4
MaxBlocks == 3
MaxFaults == 2

\* ------------------------------------------------------- program constants
\* limit=1000 of normalizeParameters, scaled to the model's feed sizes
PageLimit == 2
\* dates per unit of the request's timestamp form (parseTimestamp)
TsScale == 2

Workers == 1..NumWorkers
Dates == 0..MaxDate
NoBlock == [id |-> 0, startDate |-> 0, endDate |-> 0, contract |-> "", mapping |-> ""]
NoRes == [ok |-> FALSE, records |-> <<>>, continuation |-> 0]
NoReq == [sortDirection |-> "", startTimestamp |-> 0, endTimestamp |-> 0, continuation |-> 0]
NoRange == <<>>
ConfigMapping == "config.mapping"

VARIABLES
    feed,          \* the external feed: updatedAt of every record, ascending
    ctrl,          \* Controller._launch position: "boot" | "launched" | "failed"
    reqs,          \* the two responses of _getInitialBlock's Promise.all
    queue,         \* Queue: pending Blocks
    nextId,        \* v4(): ids minted so far
    notify,        \* 'controller.event' / release notifications the Pool has not handled
    busy,          \* Worker.busy
    continuation,  \* Worker.continuation
    block,         \* Worker.data.block
    pc,            \* position of Worker.process
    startDate,     \* process: local startDate
    endDate,       \* process: local endDate (shrinks while graining)
    ascRes,        \* process: cached ascending boundary page
    res,           \* process: the last response received
    req,           \* the request the Worker last issued
    tries,         \* history: application failures of the current request step
    nReq,          \* history: requests issued for the current request step
    nDelay,        \* history: delays waited in the current request step
    orig,          \* history: range of the Block as assigned
    splits,        \* history: Split ranges emitted in this run, in order
    inserted,      \* history: records passed to insert in this run
    log,           \* history: what the Worker did in this run, in order
    relEvent,      \* history: range carried by the run's Release event
    tailPc,        \* position of the tail Worker's upkeep
    tailStart,     \* upkeep: local startDate
    tailDate,      \* upkeep: date, the time upkeep started
    tailAsc,       \* upkeep: ascRes of the current iteration
    tailReq,       \* the request upkeep last issued
    tailIter,      \* history: how the tail's last iteration ended
    upserted,      \* history: records upkeep passed to InsertionService.upsert
    tailSplits,    \* history: Split ranges upkeep emitted
    rq             \* one call of Controller.request: position, parameters, attempts

vars == <<feed, ctrl, reqs, queue, nextId, notify, busy, continuation, block, pc,
          startDate, endDate, ascRes, res, req, tries, nReq, nDelay, orig, splits,
          inserted, log, relEvent, tailPc, tailStart, tailDate, tailAsc, tailReq,
          tailIter, upserted, tailSplits, rq>>

workerVars == <<busy, continuation, block, pc, startDate, endDate, ascRes, res, req>>
histVars == <<orig, splits, inserted, log, relEvent>>
stepVars == <<tries, nReq, nDelay>>
tailVars == <<tailPc, tailStart, tailDate, tailAsc, tailReq, tailIter, upserted, tailSplits>>

\* ------------------------------------------------------------------ utils
Min(a, b) == IF a <= b THEN a ELSE b

RECURSIVE Reverse(_)
Reverse(s) == IF s = <<>> THEN <<>> ELSE Append(Reverse(Tail(s)), Head(s))

Range(s) == {s[i] : i \in 1..Len(s)}

IsSorted(s) == \A i \in 1..(Len(s) - 1) : s[i] <= s[i + 1]

\* parseTimestamp: a date in the request's timestamp form (whole units)
ParseTimestamp(d) == d \div TsScale

\* getMiddleDate: the date half-way between start and end
GetMiddleDate(s, e) == (s + e) \div 2

\* isSuccessResponse
IsSuccessResponse(r) == r.ok

\* ------------------------------------------------------------------- feed
\* records of feed f whose timestamp lies in [sTs, eTs], ascending
Matching(f, sTs, eTs) ==
    SelectSeq([i \in 1..Len(f) |-> i],
              LAMBDA i : sTs <= ParseTimestamp(f[i]) /\ ParseTimestamp(f[i]) <= eTs)

\* the page of at most PageLimit records after cursor offset c
PageOf(all, c) == SubSeq(all, c + 1, Min(c + PageLimit, Len(all)))

\* cursors the feed may attach to the page at offset c: one when records
\* remain, none when the page is short, either when the page is exactly full
Cursors(all, c) ==
    IF c + PageLimit < Len(all) THEN {c + PageLimit}
    ELSE IF c + PageLimit = Len(all) THEN {0, c + PageLimit}
    ELSE {0}

\* success responses the feed may give to request r
Responses(f, r) ==
    LET asc == Matching(f, r.startTimestamp, r.endTimestamp)
        all == IF r.sortDirection = "asc" THEN asc ELSE Reverse(asc)
    IN  {[ok |-> TRUE, records |-> PageOf(all, r.continuation), continuation |-> c] :
            c \in Cursors(all, r.continuation)}

FailureResponse == [ok |-> FALSE, records |-> <<>>, continuation |-> 0]

\* ------------------------------------------------------------- Controller
\* the date of '9999-12-31T23:59:59Z': no record is later
FarFuture == MaxDate

\* normalizeParameters({sortDirection}): an unfiltered probe of the feed
BootRequest(dir) ==
    [sortDirection |-> dir, startTimestamp |-> 0,
     endTimestamp |-> ParseTimestamp(FarFuture), continuation |-> 0]

BootDir(i) == IF i = 1 THEN "asc" ELSE "desc"

\* the record _getInitialBlock reads from a probe page: the one at length - 1
ProbeRecord(r) == r.records[Len(r.records)]

\* _getInitialBlock's return value
InitialBlock(f, r0, r1, newId) ==
    [id |-> newId, mapping |-> ConfigMapping,
     startDate |-> f[ProbeRecord(r0)],
     endDate |-> f[ProbeRecord(r1)],
     contract |-> ""]

\* the Block is built with the event's dates swapped
SplitBlockSwapped(s, e, newId) ==
    [id |-> newId, startDate |-> e, endDate |-> s, contract |-> "",
     mapping |-> ConfigMapping]

\* _blockSplit's Block for a Split event carrying [s, e]
SplitBlock(s, e, newId) ==
    [id |-> newId, startDate |-> s, endDate |-> e, contract |-> "",
     mapping |-> ConfigMapping]

\* Queue._insertBlock
InsertBlock(q, b) == q \cup {b}

\* _blockSplit: a Split event carrying [s, e] becomes a fresh queued Block and
\* 'controller.event' is emitted
BlockSplit(s, e) ==
    /\ queue' = InsertBlock(queue, SplitBlock(s, e, nextId + 1))
    /\ nextId' = nextId + 1
    /\ notify' = notify + 1

\* one probe of _getInitialBlock is answered, with success or failure
BootResponse(i) ==
    /\ ctrl = "boot"
    /\ ~reqs[i].done
    /\ \E r \in Responses(feed, BootRequest(BootDir(i))) \cup {FailureResponse} :
          reqs' = [reqs EXCEPT ![i] = [done |-> TRUE, r |-> r]]
    /\ UNCHANGED rq
    /\ UNCHANGED <<feed, ctrl, queue, nextId, notify>>
    /\ UNCHANGED tailVars
    /\ UNCHANGED workerVars
    /\ UNCHANGED histVars
    /\ UNCHANGED stepVars

\* the two probes are issued again
ProbesReissued(rs) == [i \in 1..2 |-> [done |-> FALSE, r |-> NoRes]]

\* the probes after _getInitialBlock threw: nothing catches the rejection of
\* _launch, no request follows
ProbesAfterFailure(rs) == rs

\* _getInitialBlock throws (a probe failed, or a page has no record to read):
\* _launch rejects before it inserts anything
LaunchFail ==
    /\ ctrl = "boot"
    /\ reqs[1].done /\ reqs[2].done
    /\ \/ ~IsSuccessResponse(reqs[1].r)
       \/ ~IsSuccessResponse(reqs[2].r)
       \/ reqs[1].r.records = <<>>
       \/ reqs[2].r.records = <<>>
    /\ ctrl' = "failed"
    /\ reqs' = ProbesAfterFailure(reqs)
    /\ UNCHANGED rq
    /\ UNCHANGED <<feed, queue, nextId, notify>>
    /\ UNCHANGED tailVars
    /\ UNCHANGED workerVars
    /\ UNCHANGED histVars
    /\ UNCHANGED stepVars

\* _launch: insert the initial Block, emit 'controller.event'
Launch ==
    /\ ctrl = "boot"
    /\ reqs[1].done /\ reqs[2].done
    /\ IsSuccessResponse(reqs[1].r) /\ IsSuccessResponse(reqs[2].r)
    /\ reqs[1].r.records # <<>> /\ reqs[2].r.records # <<>>
    /\ queue' = InsertBlock(queue, InitialBlock(feed, reqs[1].r, reqs[2].r, nextId + 1))
    /\ nextId' = nextId + 1
    /\ notify' = notify + 1
    /\ ctrl' = "launched"
    /\ UNCHANGED rq
    /\ UNCHANGED <<feed, reqs>>
    /\ UNCHANGED tailVars
    /\ UNCHANGED workerVars
    /\ UNCHANGED histVars
    /\ UNCHANGED stepVars

\* ----------------------------------------------------------------- Worker
\* the request process builds with _normalize
MkRequest(dir, s, e, c) ==
    [sortDirection |-> dir, startTimestamp |-> ParseTimestamp(s),
     endTimestamp |-> ParseTimestamp(e), continuation |-> c]

\* ------------------------------------------------------ Controller.request
\* HTTP statuses the transport may deliver: validateStatus accepts every one
Statuses == {200, 404, 500}

NoResult == [status |-> 0]

\* no call of request is under way
NoCall == [pc |-> "idle", parameters |-> NoReq, sent |-> <<>>, faults |-> 0,
           result |-> NoResult]

\* parameters callers pass to request
RequestParameters ==
    {MkRequest(dir, s, e, c) : dir \in {"asc", "desc"}, s \in Dates, e \in Dates,
                               c \in 0..MaxFeed}

\* the retry is sent without the caller's parameters
RetryParametersDropped(p) == NoReq

\* line 194: the catch calls this.request(parameters) again
RetryParameters(p) == p

\* request is called: the first attempt is sent
RequestCall(p) ==
    /\ rq.pc \in {"idle", "returned"}
    /\ rq' = [pc |-> "pending", parameters |-> p, sent |-> <<p>>, faults |-> 0,
              result |-> NoResult]
    /\ UNCHANGED <<feed, ctrl, reqs, queue, nextId, notify>>
    /\ UNCHANGED tailVars
    /\ UNCHANGED workerVars
    /\ UNCHANGED histVars
    /\ UNCHANGED stepVars

\* lines 193-194: axios throws (no status was obtained), the catch sends the
\* request again at once
RequestFault ==
    /\ rq.pc = "pending"
    /\ rq.faults < MaxFaults
    /\ rq' = [rq EXCEPT !.faults = @ + 1,
                        !.sent = Append(@, RetryParameters(rq.parameters))]
    /\ UNCHANGED <<feed, ctrl, reqs, queue, nextId, notify>>
    /\ UNCHANGED tailVars
    /\ UNCHANGED workerVars
    /\ UNCHANGED histVars
    /\ UNCHANGED stepVars

\* lines 177-192: axios resolves with a status, whatever it is, and the
\* response is returned through every pending retry to the caller
RequestStatus(st) ==
    /\ rq.pc = "pending"
    /\ rq' = [rq EXCEPT !.pc = "returned", !.result = [status |-> st]]
    /\ UNCHANGED <<feed, ctrl, reqs, queue, nextId, notify>>
    /\ UNCHANGED tailVars
    /\ UNCHANGED workerVars
    /\ UNCHANGED histVars
    /\ UNCHANGED stepVars

\* the flag is left as it was
BusyOnEntryUnset == FALSE

\* process line 83: the busy flag on entry
BusyOnEntry == TRUE

\* answers isHighDensityBlock(records, 300000) may give for a sample
HighDensityAnswers(records) == BOOLEAN

\* the emptiness test is missing
IsEmptyPageNever(r) == FALSE

\* ![...records].length: the page has no record
IsEmptyPage(r) == r.records = <<>>

\* the cursor is cleared on a failed request
CursorResetOnFailure(c) == 0

\* this.continuation after a failed pagination request: `continue` leaves it
CursorAfterFailure(c) == c

\* the batch graining inserts: the cached ascending page, then the descending
GrainRecords(asc, desc) == asc.records \o desc.records

\* the collapse is not detected
CollapsedNever(s, e, m) == FALSE

\* the midpoint collapsed onto a boundary: the range cannot be halved
Collapsed(s, e, m) == m = s \/ m = e

\* the Split starts one date after the midpoint
SplitRangeOffByOne(s, e, m) == <<m + 1, e>>

\* the Split's dates are swapped
SplitRangeSwapped(s, e, m) == <<e, m>>

\* the range of the Split a halving emits (line 146)
SplitRange(s, e, m) == <<m, e>>

\* endDate is not moved to the midpoint
ShrunkEndKept(s, e, m) == e

\* the end of the range the Worker keeps (line 147)
ShrunkEnd(s, e, m) == m

\* a new request step starts with its first request
StepIssue(w) ==
    /\ tries' = [tries EXCEPT ![w] = 0]
    /\ nReq' = [nReq EXCEPT ![w] = 1]
    /\ nDelay' = [nDelay EXCEPT ![w] = 0]

\* the step's request is answered with an application failure
StepFail(w) ==
    /\ tries[w] < MaxFail
    /\ tries' = [tries EXCEPT ![w] = @ + 1]
    /\ UNCHANGED <<nReq, nDelay>>

\* the request is issued again without the delay
StepRetryNoDelay(w) ==
    /\ nReq' = [nReq EXCEPT ![w] = @ + 1]
    /\ UNCHANGED <<tries, nDelay>>

\* delay(5000) is over and the step's request is issued again
StepRetry(w) ==
    /\ nDelay' = [nDelay EXCEPT ![w] = @ + 1]
    /\ nReq' = [nReq EXCEPT ![w] = @ + 1]
    /\ UNCHANGED tries

\* the Release is not announced
NotifyAfterReleaseNone(n) == n

\* lines 274-277: 'worker.release' is emitted, one more notification the Pool
\* is to handle
NotifyAfterRelease(n) == n + 1

\* the flag stays set
BusyAfterReleaseKept == TRUE

\* line 272: this.busy = false
BusyAfterRelease == FALSE

\* _release: busy = false, the cursor is cleared, 'worker.release' is emitted
\* carrying [s, e]; the Pool is to be told a Worker idles
Release(w, s, e, entries) ==
    /\ busy' = [busy EXCEPT ![w] = BusyAfterRelease]
    /\ continuation' = [continuation EXCEPT ![w] = 0]
    /\ pc' = [pc EXCEPT ![w] = "idle"]
    /\ notify' = NotifyAfterRelease(notify)
    /\ relEvent' = [relEvent EXCEPT ![w] = <<s, e>>]
    /\ log' = [log EXCEPT ![w] = log[w] \o entries \o <<"release">>]
    /\ UNCHANGED stepVars

\* process lines 83-95: the synchronous prefix, up to the ascending probe
ProcessEnter(w, b) ==
    /\ busy' = [busy EXCEPT ![w] = BusyOnEntry]
    /\ block' = [block EXCEPT ![w] = [b EXCEPT !.mapping = ""]]
    /\ startDate' = [startDate EXCEPT ![w] = b.startDate]
    /\ endDate' = [endDate EXCEPT ![w] = b.endDate]
    /\ req' = [req EXCEPT ![w] = MkRequest("asc", b.startDate, b.endDate, 0)]
    /\ ascRes' = [ascRes EXCEPT ![w] = NoRes]
    /\ res' = [res EXCEPT ![w] = NoRes]
    /\ pc' = [pc EXCEPT ![w] = "ascProbe"]

\* ------------------------------------------------------------------- Pool
\* the Block the Pool takes next: the Queue is unordered, any pending one
TakeNext(q) == q

\* Workers the Pool may assign to
IdleWorkers == {w \in Workers : ~busy[w]}

\* a notification finds a pending Block and an idle Worker: the Block leaves
\* the Queue and is passed to that Worker's process
PoolAssign(w) ==
    /\ notify > 0
    /\ w \in IdleWorkers
    /\ \E b \in TakeNext(queue) :
          /\ queue' = queue \ {b}
          /\ ProcessEnter(w, b)
          /\ orig' = [orig EXCEPT ![w] = <<b.startDate, b.endDate>>]
    /\ notify' = notify - 1
    /\ splits' = [splits EXCEPT ![w] = <<>>]
    /\ inserted' = [inserted EXCEPT ![w] = {}]
    /\ log' = [log EXCEPT ![w] = <<"asc">>]
    /\ StepIssue(w)
    /\ relEvent' = [relEvent EXCEPT ![w] = NoRange]
    /\ UNCHANGED rq
    /\ UNCHANGED <<feed, ctrl, reqs, nextId, continuation>>
    /\ UNCHANGED tailVars

\* a notification finds no pending Block or no idle Worker: nothing is assigned
PoolIdle ==
    /\ notify > 0
    /\ queue = {} \/ IdleWorkers = {}
    /\ notify' = notify - 1
    /\ UNCHANGED rq
    /\ UNCHANGED <<feed, ctrl, reqs, queue, nextId>>
    /\ UNCHANGED tailVars
    /\ UNCHANGED workerVars
    /\ UNCHANGED histVars
    /\ UNCHANGED stepVars

\* ------------------------------------------------- Worker.process: probe
\* lines 97-98: the ascending probe is answered with an application failure
AscProbeFail(w) ==
    /\ pc[w] = "ascProbe"
    /\ StepFail(w)
    /\ res' = [res EXCEPT ![w] = FailureResponse]
    /\ pc' = [pc EXCEPT ![w] = "ascDelay"]
    /\ UNCHANGED rq
    /\ UNCHANGED log
    /\ UNCHANGED <<feed, ctrl, reqs, queue, nextId, notify>>
    /\ UNCHANGED tailVars
    /\ UNCHANGED <<busy, continuation, block, startDate, endDate, ascRes, req>>
    /\ UNCHANGED <<orig, splits, inserted, relEvent>>

\* lines 98-99: the delay is over, process is entered again with the same Block
AscProbeRetry(w) ==
    /\ pc[w] = "ascDelay"
    /\ ProcessEnter(w, [block[w] EXCEPT !.startDate = startDate[w],
                                        !.endDate = endDate[w]])
    /\ StepRetry(w)
    /\ UNCHANGED rq
    /\ UNCHANGED log
    /\ UNCHANGED <<feed, ctrl, reqs, queue, nextId, notify, continuation>>
    /\ UNCHANGED tailVars
    /\ UNCHANGED <<orig, splits, inserted, relEvent>>

\* lines 102-103: the probe succeeds with no record, the Block is released
AscProbeEmpty(w) ==
    /\ pc[w] = "ascProbe"
    /\ \E r \in Responses(feed, req[w]) :
          /\ IsEmptyPage(r)
          /\ ascRes' = [ascRes EXCEPT ![w] = r]
          /\ res' = [res EXCEPT ![w] = r]
    /\ Release(w, startDate[w], endDate[w], <<>>)
    /\ UNCHANGED rq
    /\ UNCHANGED <<feed, ctrl, reqs, queue, nextId>>
    /\ UNCHANGED tailVars
    /\ UNCHANGED <<block, startDate, endDate, req>>
    /\ UNCHANGED <<orig, splits, inserted>>

\* lines 102-117: the probe succeeds with records, graining starts with the
\* first descending request
AscProbeOk(w) ==
    /\ pc[w] = "ascProbe"
    /\ \E r \in Responses(feed, req[w]) :
          /\ ~IsEmptyPage(r)
          /\ ascRes' = [ascRes EXCEPT ![w] = r]
          /\ res' = [res EXCEPT ![w] = r]
    /\ req' = [req EXCEPT ![w] = MkRequest("desc", startDate[w], endDate[w], 0)]
    /\ pc' = [pc EXCEPT ![w] = "descProbe"]
    /\ log' = [log EXCEPT ![w] = log[w] \o <<"desc">>]
    /\ StepIssue(w)
    /\ UNCHANGED rq
    /\ UNCHANGED <<feed, ctrl, reqs, queue, nextId, notify>>
    /\ UNCHANGED tailVars
    /\ UNCHANGED <<busy, continuation, block, startDate, endDate>>
    /\ UNCHANGED <<orig, splits, inserted, relEvent>>

\* ---------------------------------------------- Worker.process: graining
\* lines 119-121: the descending request fails
DescFail(w) ==
    /\ pc[w] = "descProbe"
    /\ StepFail(w)
    /\ res' = [res EXCEPT ![w] = FailureResponse]
    /\ pc' = [pc EXCEPT ![w] = "descDelay"]
    /\ UNCHANGED rq
    /\ UNCHANGED log
    /\ UNCHANGED <<feed, ctrl, reqs, queue, nextId, notify>>
    /\ UNCHANGED tailVars
    /\ UNCHANGED <<busy, continuation, block, startDate, endDate, ascRes, req>>
    /\ UNCHANGED <<orig, splits, inserted, relEvent>>

\* lines 120-117: the delay is over, the descending request is issued again
DescRetry(w) ==
    /\ pc[w] = "descDelay"
    /\ req' = [req EXCEPT ![w] = MkRequest("desc", startDate[w], endDate[w], 0)]
    /\ pc' = [pc EXCEPT ![w] = "descProbe"]
    /\ StepRetry(w)
    /\ UNCHANGED rq
    /\ UNCHANGED log
    /\ UNCHANGED <<feed, ctrl, reqs, queue, nextId, notify>>
    /\ UNCHANGED tailVars
    /\ UNCHANGED <<busy, continuation, block, startDate, endDate, ascRes, res>>
    /\ UNCHANGED <<orig, splits, inserted, relEvent>>

\* lines 124-151, 158-165: the batch is inserted, density is acceptable: the
\* loop is left and the first pagination request is issued
GrainDone(w) ==
    /\ pc[w] = "descProbe"
    /\ \E r \in Responses(feed, req[w]) :
          /\ res' = [res EXCEPT ![w] = r]
          /\ inserted' = [inserted EXCEPT ![w] = @ \cup Range(GrainRecords(ascRes[w], r))]
          /\ FALSE \in HighDensityAnswers(GrainRecords(ascRes[w], r))
    /\ req' = [req EXCEPT ![w] = MkRequest("asc", startDate[w], endDate[w], continuation[w])]
    /\ pc' = [pc EXCEPT ![w] = "page"]
    /\ log' = [log EXCEPT ![w] = log[w] \o <<"insertGrain", "page">>]
    /\ StepIssue(w)
    /\ UNCHANGED rq
    /\ UNCHANGED <<feed, ctrl, reqs, queue, nextId, notify>>
    /\ UNCHANGED tailVars
    /\ UNCHANGED <<busy, continuation, block, startDate, endDate, ascRes>>
    /\ UNCHANGED <<orig, splits, relEvent>>

\* lines 124-148 with _split and Controller._blockSplit: the batch is
\* inserted, density is too high and the midpoint is interior: a Split for
\* [midpoint, endDate] is emitted and materialized as a fresh queued Block,
\* the range shrinks to [startDate, midpoint], graining repeats
GrainSplit(w) ==
    LET s == startDate[w]
        e == endDate[w]
        m == GetMiddleDate(s, e)
        sp == SplitRange(s, e, m)
    IN  /\ pc[w] = "descProbe"
        /\ \E r \in Responses(feed, req[w]) :
              /\ res' = [res EXCEPT ![w] = r]
              /\ inserted' = [inserted EXCEPT ![w] = @ \cup Range(GrainRecords(ascRes[w], r))]
              /\ TRUE \in HighDensityAnswers(GrainRecords(ascRes[w], r))
        /\ ~Collapsed(s, e, m)
        /\ splits' = [splits EXCEPT ![w] = Append(@, sp)]
        /\ BlockSplit(sp[1], sp[2])
        /\ endDate' = [endDate EXCEPT ![w] = ShrunkEnd(s, e, m)]
        /\ req' = [req EXCEPT ![w] = MkRequest("desc", s, ShrunkEnd(s, e, m), 0)]
        /\ log' = [log EXCEPT ![w] = log[w] \o <<"insertGrain", "split", "desc">>]
        /\ StepIssue(w)
        /\ UNCHANGED rq
        /\ UNCHANGED <<feed, ctrl, reqs>>
        /\ UNCHANGED tailVars
        /\ UNCHANGED <<busy, continuation, block, pc, startDate, ascRes>>
        /\ UNCHANGED <<orig, relEvent>>

\* lines 124-144: the batch is inserted, density is too high and the midpoint
\* is a boundary: the Block is released as it is
GrainCollapse(w) ==
    LET s == startDate[w]
        e == endDate[w]
        m == GetMiddleDate(s, e)
    IN  /\ pc[w] = "descProbe"
        /\ \E r \in Responses(feed, req[w]) :
              /\ res' = [res EXCEPT ![w] = r]
              /\ inserted' = [inserted EXCEPT ![w] = @ \cup Range(GrainRecords(ascRes[w], r))]
              /\ TRUE \in HighDensityAnswers(GrainRecords(ascRes[w], r))
        /\ Collapsed(s, e, m)
        /\ Release(w, s, e, <<"insertGrain">>)
        /\ UNCHANGED rq
        /\ UNCHANGED <<feed, ctrl, reqs, queue, nextId>>
        /\ UNCHANGED tailVars
        /\ UNCHANGED <<block, startDate, endDate, ascRes, req>>
        /\ UNCHANGED <<orig, splits>>

\* -------------------------------------------- Worker.process: processing
\* the cursor process stores from a page's response (line 182)
NextCursor(r) == r.continuation

\* lines 167-169: the pagination request fails
PageFail(w) ==
    /\ pc[w] = "page"
    /\ StepFail(w)
    /\ res' = [res EXCEPT ![w] = FailureResponse]
    /\ pc' = [pc EXCEPT ![w] = "pageDelay"]
    /\ UNCHANGED rq
    /\ UNCHANGED log
    /\ UNCHANGED <<feed, ctrl, reqs, queue, nextId, notify>>
    /\ UNCHANGED tailVars
    /\ continuation' = [continuation EXCEPT ![w] = CursorAfterFailure(@)]
    /\ UNCHANGED <<busy, block, startDate, endDate, ascRes, req>>
    /\ UNCHANGED <<orig, splits, inserted, relEvent>>

\* lines 168-165: the delay is over, the pagination request is issued again
PageRetry(w) ==
    /\ pc[w] = "pageDelay"
    /\ req' = [req EXCEPT ![w] = MkRequest("asc", startDate[w], endDate[w], continuation[w])]
    /\ pc' = [pc EXCEPT ![w] = "page"]
    /\ StepRetry(w)
    /\ UNCHANGED rq
    /\ UNCHANGED log
    /\ UNCHANGED <<feed, ctrl, reqs, queue, nextId, notify>>
    /\ UNCHANGED tailVars
    /\ UNCHANGED <<busy, continuation, block, startDate, endDate, ascRes, res>>
    /\ UNCHANGED <<orig, splits, inserted, relEvent>>

\* lines 174-175, 187: a page with no record ends the pagination
PageEmpty(w) ==
    /\ pc[w] = "page"
    /\ \E r \in Responses(feed, req[w]) :
          /\ IsEmptyPage(r)
          /\ res' = [res EXCEPT ![w] = r]
    /\ Release(w, startDate[w], endDate[w], <<>>)
    /\ UNCHANGED rq
    /\ UNCHANGED <<feed, ctrl, reqs, queue, nextId>>
    /\ UNCHANGED tailVars
    /\ UNCHANGED <<block, startDate, endDate, ascRes, req>>
    /\ UNCHANGED <<orig, splits, inserted>>

\* lines 178-181, 187: a page without continuation is inserted and ends the
\* pagination
PageLast(w) ==
    /\ pc[w] = "page"
    /\ \E r \in Responses(feed, req[w]) :
          /\ ~IsEmptyPage(r)
          /\ r.continuation = 0
          /\ res' = [res EXCEPT ![w] = r]
          /\ inserted' = [inserted EXCEPT ![w] = @ \cup Range(r.records)]
    /\ Release(w, startDate[w], endDate[w], <<"insertPage">>)
    /\ UNCHANGED rq
    /\ UNCHANGED <<feed, ctrl, reqs, queue, nextId>>
    /\ UNCHANGED tailVars
    /\ UNCHANGED <<block, startDate, endDate, ascRes, req>>
    /\ UNCHANGED <<orig, splits>>

\* lines 178-182, 158-165: a page with a continuation is inserted, the cursor
\* is stored and the next page is requested
PageMore(w) ==
    /\ pc[w] = "page"
    /\ \E r \in Responses(feed, req[w]) :
          /\ ~IsEmptyPage(r)
          /\ r.continuation # 0
          /\ res' = [res EXCEPT ![w] = r]
          /\ inserted' = [inserted EXCEPT ![w] = @ \cup Range(r.records)]
          /\ continuation' = [continuation EXCEPT ![w] = NextCursor(r)]
          /\ req' = [req EXCEPT ![w] =
                        MkRequest("asc", startDate[w], endDate[w], NextCursor(r))]
    /\ log' = [log EXCEPT ![w] = log[w] \o <<"insertPage", "page">>]
    /\ StepIssue(w)
    /\ UNCHANGED rq
    /\ UNCHANGED <<feed, ctrl, reqs, queue, nextId, notify>>
    /\ UNCHANGED tailVars
    /\ UNCHANGED <<busy, block, pc, startDate, endDate, ascRes>>
    /\ UNCHANGED <<orig, splits, relEvent>>

\* --------------------------------------------------------- Worker.upkeep
\* the Worker designated to run upkeep
TailWorker == 1

\* this.continuation as upkeep reads it (lines 206, 225): upkeep never
\* assigns it, it holds what process and _release of the same Worker left
TailContinuation == continuation[TailWorker]

\* the time upkeep starts: the feed's newest record is of this moment
Now(f) == IF f = <<>> THEN 0 ELSE f[Len(f)]

\* lines 243-249: the Split covers the ascending page, first to last record
TailSplitRange(f, recs) == <<f[recs[1]], f[recs[Len(recs)]]>>

\* the tail restarts from the page's first record
TailNextStartFirst(f, recs) == f[recs[1]]

\* line 250: the tail's next start is the page's last record
TailNextStart(f, recs) == f[recs[Len(recs)]]

TailEnd(outcome) ==
    /\ tailPc' = "tailDelay"
    /\ tailIter' = [outcome |-> outcome, splits |-> <<>>]

\* lines 202-211: the delay is over, the ascending request is issued
TailTick ==
    /\ tailPc = "tailDelay"
    /\ tailReq' = MkRequest("asc", tailStart, FarFuture, TailContinuation)
    /\ tailPc' = "tailAsc"
    /\ UNCHANGED rq
    /\ UNCHANGED <<feed, ctrl, reqs, queue, nextId, notify>>
    /\ UNCHANGED <<tailStart, tailDate, tailAsc, tailIter, upserted, tailSplits>>
    /\ UNCHANGED workerVars
    /\ UNCHANGED histVars
    /\ UNCHANGED stepVars

\* line 213: application failure, the iteration is skipped
TailAscFail ==
    /\ tailPc = "tailAsc"
    /\ tailAsc' = FailureResponse
    /\ TailEnd("ascFail")
    /\ UNCHANGED rq
    /\ UNCHANGED <<feed, ctrl, reqs, queue, nextId, notify>>
    /\ UNCHANGED <<tailStart, tailDate, tailReq, upserted, tailSplits>>
    /\ UNCHANGED workerVars
    /\ UNCHANGED histVars
    /\ UNCHANGED stepVars

\* line 217: no records, the iteration is skipped
TailAscEmpty ==
    /\ tailPc = "tailAsc"
    /\ \E r \in Responses(feed, tailReq) :
          /\ IsEmptyPage(r)
          /\ tailAsc' = r
    /\ TailEnd("noRecords")
    /\ UNCHANGED rq
    /\ UNCHANGED <<feed, ctrl, reqs, queue, nextId, notify>>
    /\ UNCHANGED <<tailStart, tailDate, tailReq, upserted, tailSplits>>
    /\ UNCHANGED workerVars
    /\ UNCHANGED histVars
    /\ UNCHANGED stepVars

\* lines 219-221: the page is upserted, no continuation: the tail caught up
TailAscLast ==
    /\ tailPc = "tailAsc"
    /\ \E r \in Responses(feed, tailReq) :
          /\ ~IsEmptyPage(r)
          /\ r.continuation = 0
          /\ tailAsc' = r
          /\ upserted' = upserted \cup Range(r.records)
    /\ TailEnd("caughtUp")
    /\ UNCHANGED rq
    /\ UNCHANGED <<feed, ctrl, reqs, queue, nextId, notify>>
    /\ UNCHANGED <<tailStart, tailDate, tailReq, tailSplits>>
    /\ UNCHANGED workerVars
    /\ UNCHANGED histVars
    /\ UNCHANGED stepVars

\* lines 219-230: the page is upserted, a continuation came with it: the
\* descending probe from date to the far future is issued
TailAscBurst ==
    /\ tailPc = "tailAsc"
    /\ \E r \in Responses(feed, tailReq) :
          /\ ~IsEmptyPage(r)
          /\ r.continuation # 0
          /\ tailAsc' = r
          /\ upserted' = upserted \cup Range(r.records)
    /\ tailReq' = MkRequest("desc", tailDate, FarFuture, TailContinuation)
    /\ tailPc' = "tailDesc"
    /\ UNCHANGED rq
    /\ UNCHANGED <<feed, ctrl, reqs, queue, nextId, notify>>
    /\ UNCHANGED <<tailStart, tailDate, tailIter, tailSplits>>
    /\ UNCHANGED workerVars
    /\ UNCHANGED histVars
    /\ UNCHANGED stepVars

\* line 232: the descending probe fails, the iteration is skipped
TailDescFail ==
    /\ tailPc = "tailDesc"
    /\ TailEnd("descFail")
    /\ UNCHANGED rq
    /\ UNCHANGED <<feed, ctrl, reqs, queue, nextId, notify>>
    /\ UNCHANGED <<tailStart, tailDate, tailAsc, tailReq, upserted, tailSplits>>
    /\ UNCHANGED workerVars
    /\ UNCHANGED histVars
    /\ UNCHANGED stepVars

\* lines 234-242: density is acceptable, nothing is emitted
TailSparse ==
    /\ tailPc = "tailDesc"
    /\ \E r \in Responses(feed, tailReq) :
          FALSE \in HighDensityAnswers(GrainRecords(tailAsc, r))
    /\ TailEnd("sparse")
    /\ UNCHANGED rq
    /\ UNCHANGED <<feed, ctrl, reqs, queue, nextId, notify>>
    /\ UNCHANGED <<tailStart, tailDate, tailAsc, tailReq, upserted, tailSplits>>
    /\ UNCHANGED workerVars
    /\ UNCHANGED histVars
    /\ UNCHANGED stepVars

\* lines 234-251 with _split and Controller._blockSplit: density is too high:
\* a Split for the page's span is emitted and materialized, the tail's start
\* moves to the page's last record
TailDense ==
    LET sp == TailSplitRange(feed, tailAsc.records)
    IN  /\ tailPc = "tailDesc"
        /\ nextId < MaxBlocks
        /\ \E r \in Responses(feed, tailReq) :
              TRUE \in HighDensityAnswers(GrainRecords(tailAsc, r))
        /\ BlockSplit(sp[1], sp[2])
        /\ tailSplits' = tailSplits \cup {sp}
        /\ tailStart' = TailNextStart(feed, tailAsc.records)
        /\ tailPc' = "tailDelay"
        /\ tailIter' = [outcome |-> "dense", splits |-> <<sp>>]
        /\ UNCHANGED rq
        /\ UNCHANGED <<feed, ctrl, reqs>>
        /\ UNCHANGED <<tailDate, tailAsc, tailReq, upserted>>
        /\ UNCHANGED workerVars
        /\ UNCHANGED histVars
        /\ UNCHANGED stepVars

TailStep ==
    \/ TailTick \/ TailAscFail \/ TailAscEmpty \/ TailAscLast \/ TailAscBurst
    \/ TailDescFail \/ TailSparse \/ TailDense

\* a record appears in the feed, not older than the feed's newest
FeedGrow(d) ==
    /\ Len(feed) < MaxTailFeed
    /\ d >= Now(feed)
    /\ feed' = Append(feed, d)
    /\ UNCHANGED rq
    /\ UNCHANGED <<ctrl, reqs, queue, nextId, notify>>
    /\ UNCHANGED tailVars
    /\ UNCHANGED workerVars
    /\ UNCHANGED histVars
    /\ UNCHANGED stepVars

\* ---------------------------------------------------------- specification
\* feeds: every ascending sequence of at most MaxFeed dates
Feeds == UNION {{f \in [1..n -> Dates] : IsSorted(f)} : n \in 0..MaxFeed}

InitWorkers ==
    /\ busy = [w \in Workers |-> FALSE]
    /\ continuation = [w \in Workers |-> 0]
    /\ block = [w \in Workers |-> NoBlock]
    /\ pc = [w \in Workers |-> "idle"]
    /\ startDate = [w \in Workers |-> 0]
    /\ endDate = [w \in Workers |-> 0]
    /\ ascRes = [w \in Workers |-> NoRes]
    /\ res = [w \in Workers |-> NoRes]
    /\ req = [w \in Workers |-> NoReq]
    /\ tries = [w \in Workers |-> 0]
    /\ nReq = [w \in Workers |-> 0]
    /\ nDelay = [w \in Workers |-> 0]
    /\ orig = [w \in Workers |-> NoRange]
    /\ splits = [w \in Workers |-> <<>>]
    /\ inserted = [w \in Workers |-> {}]
    /\ log = [w \in Workers |-> <<>>]
    /\ relEvent = [w \in Workers |-> NoRange]

\* upkeep lines 198-199: the tail starts from now
InitTail ==
    /\ tailPc = "tailDelay"
    /\ tailDate = Now(feed)
    /\ tailStart = Now(feed)
    /\ tailAsc = NoRes
    /\ tailReq = NoReq
    /\ tailIter = [outcome |-> "none", splits |-> <<>>]
    /\ upserted = {}
    /\ tailSplits = {}

\* the Controller is constructed: _launch awaits the two bootstrap probes
Init ==
    /\ feed \in Feeds
    /\ ctrl = "boot"
    /\ reqs = [i \in 1..2 |-> [done |-> FALSE, r |-> NoRes]]
    /\ queue = {}
    /\ nextId = 0
    /\ notify = 0
    /\ InitWorkers
    /\ InitTail
    /\ rq = NoCall

WorkerStep(w) ==
    \/ AscProbeFail(w) \/ AscProbeRetry(w) \/ AscProbeEmpty(w) \/ AscProbeOk(w)
    \/ DescFail(w) \/ DescRetry(w) \/ GrainDone(w) \/ GrainSplit(w) \/ GrainCollapse(w)
    \/ PageFail(w) \/ PageRetry(w) \/ PageEmpty(w) \/ PageLast(w) \/ PageMore(w)

Next ==
    \/ \E i \in 1..2 : BootResponse(i)
    \/ LaunchFail
    \/ Launch
    \/ \E w \in Workers : PoolAssign(w)
    \/ PoolIdle
    \/ \E w \in Workers : WorkerStep(w)

Spec == Init /\ [][Next]_vars

\* the system under fairness: as long as the bootstrap, the Pool or a Worker
\* has a step to take (a response arrives, a delay ends, a notification is
\* handled), one is taken; a request step fails at most MaxFail times, so its
\* requests eventually succeed
SpecLive == Spec /\ WF_vars(Next)

\* the tail: upkeep of the tail Worker on a feed that starts with at most one
\* record and grows, with the Controller materializing the tail's Splits (the
\* Pool's Workers write none of the tail's state and are left out)
TailFeeds == {f \in Feeds : Len(f) <= 1}

InitGrowing ==
    /\ feed \in TailFeeds
    /\ ctrl = "boot"
    /\ reqs = [i \in 1..2 |-> [done |-> FALSE, r |-> NoRes]]
    /\ queue = {}
    /\ nextId = 0
    /\ notify = 0
    /\ InitWorkers
    /\ InitTail
    /\ rq = NoCall

NextGrowing ==
    \/ TailStep
    \/ \E d \in Dates : FeedGrow(d)

SpecTail == InitGrowing /\ [][NextGrowing]_vars

\* the designated Worker runs upkeep in addition to normal assignment: upkeep
\* never sets busy, so the Pool finds that Worker idle and assigns to it (the
\* Pool's other Workers are left out: the behaviours are those of the system
\* in which the Pool picks the designated Worker)
NextShared ==
    \/ \E i \in 1..2 : BootResponse(i)
    \/ LaunchFail
    \/ Launch
    \/ PoolAssign(TailWorker)
    \/ PoolIdle
    \/ WorkerStep(TailWorker)
    \/ TailStep

\* feeds for it: one within a page, whose bootstrap Block is empty, and one of
\* MaxFeed records, two at the oldest date and two at the newest
SharedFeeds ==
    {<<0, MaxDate>>,
     [i \in 1..MaxFeed |-> IF i <= 2 THEN 0
                           ELSE IF i >= MaxFeed - 1 THEN MaxDate
                           ELSE MaxDate \div 2]}

InitShared ==
    /\ feed \in SharedFeeds
    /\ ctrl = "boot"
    /\ reqs = [i \in 1..2 |-> [done |-> FALSE, r |-> NoRes]]
    /\ queue = {}
    /\ nextId = 0
    /\ notify = 0
    /\ InitWorkers
    /\ InitTail
    /\ rq = NoCall

SpecShared == InitShared /\ [][NextShared]_vars

\* the request primitive on its own, called with any parameters, under the
\* assumption that the transport eventually yields a status
InitRequest ==
    /\ feed = <<>>
    /\ ctrl = "boot"
    /\ reqs = [i \in 1..2 |-> [done |-> FALSE, r |-> NoRes]]
    /\ queue = {}
    /\ nextId = 0
    /\ notify = 0
    /\ InitWorkers
    /\ InitTail
    /\ rq = NoCall

NextRequest ==
    \/ \E p \in RequestParameters : RequestCall(p)
    \/ RequestFault
    \/ \E st \in Statuses : RequestStatus(st)

SpecRequest ==
    /\ InitRequest
    /\ [][NextRequest]_vars
    /\ SF_vars(\E st \in Statuses : RequestStatus(st))

\* the tail under fairness: the loop keeps ticking (the delay always ends) and
\* its requests eventually succeed
TailAscSucceeds == TailAscEmpty \/ TailAscLast \/ TailAscBurst

TailDescSucceeds == TailSparse \/ TailDense

SpecTailFair ==
    /\ SpecTail
    /\ WF_vars(TailStep)
    /\ SF_vars(TailAscSucceeds)
    /\ SF_vars(TailDescSucceeds)

\* ================================================================= claims
Running(w) == pc[w] # "idle"
Released(w) == pc[w] = "idle" /\ relEvent[w] # NoRange
DatesOf(r) == {d \in Dates : r[1] <= d /\ d <= r[2]}
\* the ranges a run owns or has handed off: the current one, then its Splits
Pieces(w) == <<(<<startDate[w], endDate[w]>>)>> \o Reverse(splits[w])
Count(s, x) == Cardinality({i \in 1..Len(s) : s[i] = x})

\* C1: no Block is held by two Workers at once: two running Workers hold
\* Blocks of different ids, a Block still queued is held by no running
\* Worker, and a Worker inside process has busy = true, so that the Pool,
\* which assigns to Workers with busy = false only, never hands a Block to a
\* Worker that is in a run.
C1_MutualExclusion ==
    /\ \A w1, w2 \in Workers :
          (w1 # w2 /\ Running(w1) /\ Running(w2)) => block[w1].id # block[w2].id
    /\ \A w \in Workers : \A b \in queue : Running(w) => b.id # block[w].id
    /\ \A w \in Workers : Running(w) => busy[w]

C1_Witness ==
    \E w1, w2 \in Workers :
        /\ w1 # w2 /\ Running(w1) /\ Running(w2)
        /\ queue # {}

\* C2: splitting is range-preserving: in every run, the Worker's current
\* range followed by the Splits it emitted (latest first) is a chain from the
\* assigned startDate to the assigned endDate in which each piece ends where
\* the next one starts; the pieces cover exactly the dates of the assigned
\* range, neighbours share exactly their boundary date and other pieces
\* share none.
C2_SplitsTile ==
    \A w \in Workers :
        (orig[w] # NoRange /\ orig[w][1] <= orig[w][2]) =>
            LET ps == Pieces(w)
            IN  /\ ps[1][1] = orig[w][1]
                /\ ps[Len(ps)][2] = orig[w][2]
                /\ \A k \in 1..(Len(ps) - 1) : ps[k][2] = ps[k + 1][1]
                /\ UNION {DatesOf(ps[k]) : k \in 1..Len(ps)} = DatesOf(orig[w])
                /\ \A j, k \in 1..Len(ps) :
                      j < k => DatesOf(ps[j]) \cap DatesOf(ps[k]) =
                                  (IF k = j + 1 THEN {ps[j][2]} ELSE {})

C2_Witness ==
    \E w \in Workers : Len(splits[w]) >= 2 /\ Released(w)

\* C3: for a Block assigned with startDate <= endDate, the Worker's range
\* after every halving, every Split range it emits (so every Block
\* materialized from one) and the range its Release carries all have
\* startDate <= endDate.
C3_RangesOrdered ==
    \A w \in Workers :
        (orig[w] # NoRange /\ orig[w][1] <= orig[w][2]) =>
            /\ startDate[w] <= endDate[w]
            /\ \A k \in 1..Len(splits[w]) : splits[w][k][1] <= splits[w][k][2]
            /\ relEvent[w] # NoRange => relEvent[w][1] <= relEvent[w][2]

C3_Witness ==
    \E w \in Workers :
        /\ Released(w) /\ orig[w][1] < orig[w][2]
        /\ splits[w] # <<>>
        /\ \E b \in queue : <<b.startDate, b.endDate>> = splits[w][1]

\* C4: after a successful bootstrap on a non-empty feed the Block _launch
\* inserts (the first id minted) is [oldest, newest]: its startDate is the
\* smallest updatedAt of the feed and its endDate the largest.
C4_InitialBlockCoversFeed ==
    \A b \in queue :
        b.id = 1 => /\ b.startDate = feed[1]
                    /\ b.endDate = feed[Len(feed)]
                    /\ b.startDate <= b.endDate

\* C5: at Release, every record of the feed whose updatedAt lies in the
\* assigned range was passed to insert by the Worker or lies inside a Split
\* range the Worker emitted.
Covered(w, i) ==
    \/ i \in inserted[w]
    \/ \E k \in 1..Len(splits[w]) :
          splits[w][k][1] <= feed[i] /\ feed[i] <= splits[w][k][2]

InAssignedRange(w, i) == orig[w][1] <= feed[i] /\ feed[i] <= orig[w][2]

C5_NoCoverageLost ==
    \A w \in Workers :
        Released(w) => \A i \in 1..Len(feed) : InAssignedRange(w, i) => Covered(w, i)

\* C6: a Block whose ascending probe succeeds with no record is released at
\* once: a Worker holding such a probe response is idle, its run consisted of
\* the probe and the Release only (no descending or pagination request, no
\* insert, no Split), and the Release carries the assigned range.
C6_EmptyProbeReleases ==
    \A w \in Workers :
        (IsSuccessResponse(ascRes[w]) /\ ascRes[w].records = <<>>) =>
            /\ Released(w)
            /\ log[w] = <<"asc", "release">>
            /\ inserted[w] = {}
            /\ splits[w] = <<>>
            /\ relEvent[w] = orig[w]

C6_Witness ==
    \E w \in Workers :
        /\ IsSuccessResponse(ascRes[w]) /\ ascRes[w].records = <<>>
        /\ Released(w)
        /\ nReq[w] > 1

\* C7: in the Processing phase an application failure leaves the cursor and
\* the range unchanged and the request issued after the delay is the failed
\* one; the cursor takes a new non-empty value only on a successful
\* pagination response with records and a continuation, which it then equals.
C7_CursorOnlyOnSuccess ==
    [][\A w \in Workers :
          /\ (pc[w] = "page" /\ pc'[w] = "pageDelay") =>
                /\ continuation'[w] = continuation[w]
                /\ startDate'[w] = startDate[w]
                /\ endDate'[w] = endDate[w]
          /\ (pc[w] = "pageDelay" /\ pc'[w] = "page") => req'[w] = req[w]
          /\ (continuation'[w] # continuation[w] /\ continuation'[w] # 0) =>
                /\ pc[w] = "page"
                /\ IsSuccessResponse(res'[w])
                /\ res'[w].records # <<>>
                /\ res'[w].continuation = continuation'[w]
      ]_vars

C7_Witness ==
    \E w \in Workers : pc[w] = "pageDelay" /\ continuation[w] # 0

\* C8: graining terminates: every halving strictly shrinks the range (the new
\* endDate lies strictly between startDate and the old endDate), and the
\* number of halvings of a run never exceeds the number of dates between the
\* assigned startDate and endDate.
C8_GrainingBounded ==
    [][\A w \in Workers :
          Len(splits'[w]) > Len(splits[w]) =>
              /\ startDate'[w] = startDate[w]
              /\ startDate[w] < endDate'[w]
              /\ endDate'[w] < endDate[w]
              /\ Len(splits'[w]) <= orig[w][2] - orig[w][1]
      ]_vars

C8_Witness ==
    \E w \in Workers :
        /\ Len(splits[w]) >= 2
        /\ pc[w] \in {"page", "idle"}

\* C9 as stated: a request step with k failures has k delays and k + 1
\* requests, and the records of a successful page, the initial ascending
\* probe's page included, are passed to insert exactly once before the Worker
\* proceeds.
RetryExact(w) ==
    /\ pc[w] \in {"ascProbe", "descProbe", "page"} =>
          nReq[w] = tries[w] + 1 /\ nDelay[w] = tries[w]
    /\ pc[w] \in {"ascDelay", "descDelay", "pageDelay"} =>
          nReq[w] = tries[w] /\ nDelay[w] = tries[w] - 1

PagesInsertedOnce(w) ==
    pc[w] \in {"page", "pageDelay"} =>
        /\ Count(log[w], "insertPage") = Count(log[w], "page") - 1
        /\ (IsSuccessResponse(res[w]) /\ Count(log[w], "page") > 1) =>
              Range(res[w].records) \subseteq inserted[w]

ProbeSucceeded(w) == IsSuccessResponse(ascRes[w]) /\ ascRes[w].records # <<>>

C9_ProbePageInsertedOnce ==
    \A w \in Workers :
        /\ RetryExact(w)
        /\ PagesInsertedOnce(w)
        /\ ProbeSucceeded(w) => Count(log[w], "insertGrain") = 1

\* C9 amended: a request step with k failures has k delays and k + 1
\* requests; a failed response triggers no insert and no Split; a successful
\* pagination page is passed to insert exactly once before the next request
\* or the Release. The page of the initial ascending probe is not inserted
\* when it arrives: it is inserted with every successful descending page,
\* once per graining iteration.
ProbeInsertedPerIteration(w) ==
    /\ pc[w] \in {"ascProbe", "ascDelay"} => Count(log[w], "insertGrain") = 0
    /\ pc[w] \in {"descProbe", "descDelay"} =>
          Count(log[w], "insertGrain") = Len(splits[w])
    /\ pc[w] \in {"page", "pageDelay"} =>
          Count(log[w], "insertGrain") = Len(splits[w]) + 1
    /\ (Released(w) /\ ProbeSucceeded(w)) =>
          /\ Count(log[w], "insertGrain") = Len(splits[w]) + 1
          /\ Range(ascRes[w].records) \subseteq inserted[w]

C9_RetryExact ==
    /\ [](\A w \in Workers :
             RetryExact(w) /\ PagesInsertedOnce(w) /\ ProbeInsertedPerIteration(w))
    /\ [][\A w \in Workers :
             tries'[w] > tries[w] =>
                 /\ inserted'[w] = inserted[w]
                 /\ splits'[w] = splits[w]
                 /\ log'[w] = log[w]
                 /\ queue' = queue
         ]_vars

C9_Witness ==
    \E w \in Workers :
        /\ Released(w)
        /\ tries[w] = MaxFail /\ nReq[w] = MaxFail + 1 /\ nDelay[w] = MaxFail
        /\ Len(log[w]) >= 2 /\ log[w][Len(log[w]) - 1] = "insertPage"
        /\ Len(splits[w]) >= 1

\* C10: tail burst hand-off: an iteration of upkeep whose ascending fetch
\* succeeds with records and a continuation, whose descending probe succeeds
\* and whose density is too high emits exactly one Split, for [updatedAt of
\* the page's first record, updatedAt of its last record], materialized as
\* one new Block, and moves the tail's start to the last record's updatedAt;
\* every other iteration emits no Split and leaves the start where it was;
\* each iteration's ascending request starts from the tail's start.
TailDenseStep ==
    tailPc = "tailDesc" /\ tailPc' = "tailDelay" /\ tailIter'.outcome = "dense"

TailIterationEnds == tailPc \in {"tailAsc", "tailDesc"} /\ tailPc' = "tailDelay"

TailCovered(i) ==
    /\ i <= Len(feed)
    /\ \/ i \in upserted
       \/ \E sp \in tailSplits : sp[1] <= feed[i] /\ feed[i] <= sp[2]

TailOwes(i) == i <= Len(feed) /\ feed[i] >= tailStart

C11_TailKeepsPace ==
    \A i \in 1..MaxTailFeed : TailOwes(i) ~> TailCovered(i)

\* C12: bootstrap failure is fatal and not retried: once both probes are
\* answered and one of them is an application failure, _launch never
\* completes, no probe is issued again, the Queue stays empty, no id is
\* minted, the Pool is never notified and no Worker ever becomes busy.
BootFailure ==
    /\ reqs[1].done /\ reqs[2].done
    /\ ~IsSuccessResponse(reqs[1].r) \/ ~IsSuccessResponse(reqs[2].r)

C12_BootstrapFailureFatal ==
    /\ [](BootFailure =>
             /\ ctrl # "launched"
             /\ queue = {} /\ nextId = 0 /\ notify = 0
             /\ \A w \in Workers : ~busy[w] /\ pc[w] = "idle")
    /\ [](ctrl = "failed" => reqs[1].done /\ reqs[2].done)
    /\ [][BootFailure =>
             /\ reqs' = reqs
             /\ ctrl' \in {ctrl, "failed"}
             /\ queue' = queue /\ notify' = notify
         ]_vars

C12_Witness ==
    /\ ctrl = "failed"
    /\ IsSuccessResponse(reqs[1].r) /\ reqs[1].r.records # <<>>
    /\ ~IsSuccessResponse(reqs[2].r)

\* C13: request never returns a transport fault: what it returns is a
\* response with an HTTP status, returned after the first attempt that got
\* one, with no retry; every transport fault is followed at once by another
\* attempt with the same parameters; at return the attempts number the
\* faults plus one; and, the transport eventually yielding a status, every
\* call returns.
C13_RequestRetriesFaults ==
    /\ [](rq.pc = "returned" =>
             /\ rq.result.status \in Statuses
             /\ Len(rq.sent) = rq.faults + 1)
    /\ [](\A k \in 1..Len(rq.sent) : rq.sent[k] = rq.parameters)
    /\ [][/\ rq'.faults > rq.faults =>
                /\ rq'.pc = "pending"
                /\ rq'.faults = rq.faults + 1
                /\ Len(rq'.sent) = Len(rq.sent) + 1
                /\ rq'.parameters = rq.parameters
          /\ (rq.pc = "pending" /\ rq'.pc = "returned") =>
                /\ rq'.sent = rq.sent
                /\ rq'.faults = rq.faults
         ]_vars
    /\ (rq.pc = "pending" ~> rq.pc = "returned")

C13_Witness ==
    /\ rq.pc = "returned"
    /\ rq.faults = MaxFaults
    /\ rq.result.status = 500
    /\ rq.parameters.continuation # 0

\* C14: Split materialization: every Split a Worker emits, from graining or
\* from the tail, puts exactly one new Block into the Queue; the Block has
\* the event's startDate and endDate, an empty contract, the configured
\* mapping and an id no Block had before (queued, held or released, the
\* parent's included); when the notification of new work is pending the
\* Block is already in the Queue.
Materialized(sp) ==
    [id |-> nextId', startDate |-> sp[1], endDate |-> sp[2], contract |-> "",
     mapping |-> ConfigMapping]

MaterializedOnce(sp) ==
    /\ nextId' = nextId + 1
    /\ queue' = queue \cup {Materialized(sp)}
    /\ Cardinality(queue') = Cardinality(queue) + 1
    /\ \A b \in queue : b.id # nextId'
    /\ \A v \in Workers : block[v].id # nextId'
    /\ notify' = notify + 1
    /\ Materialized(sp) \in queue'

IdsMinted ==
    /\ \A b \in queue : b.id \in 1..nextId
    /\ \A v \in Workers : block[v].id \in 0..nextId

NoStranding == (queue # {} /\ IdleWorkers # {}) => notify > 0

Drained == queue = {} /\ \A w \in Workers : pc[w] = "idle" /\ ~busy[w]

C15_NoWorkStranded ==
    /\ []NoStranding
    /\ [][\A b \in queue \ queue' :
             \E w \in Workers :
                 ~busy[w] /\ busy'[w] /\ block'[w].id = b.id /\ pc'[w] = "ascProbe"
         ]_vars
    /\ <>[]Drained

C15_Witness ==
    /\ Drained
    /\ nextId >= 3
    /\ \A w \in Workers : Released(w)

\* C16: Release is the single exit of a run of process: while the run lasts
\* busy = true and no Release was emitted; the step that ends the run emits
\* the Release with busy = false and the cursor empty; a run that ended (also
\* one whose probe was retried by re-entering process) emitted exactly one
\* Release, as the last thing it did; and nothing of the Worker changes
\* between that Release and the next assignment.
RunEnded(w) == pc[w] = "idle" /\ orig[w] # NoRange

WorkerState(w) ==
    <<busy[w], continuation[w], block[w], pc[w], startDate[w], endDate[w],
      ascRes[w], res[w], req[w], splits[w], inserted[w], log[w], relEvent[w]>>

C16_ReleaseSingleExit ==
    /\ [](\A w \in Workers :
             /\ Running(w) =>
                   /\ busy[w]
                   /\ Count(log[w], "release") = 0
                   /\ relEvent[w] = NoRange
             /\ RunEnded(w) =>
                   /\ Count(log[w], "release") = 1
                   /\ log[w][Len(log[w])] = "release"
                   /\ relEvent[w] # NoRange
                   /\ ~busy[w]
                   /\ continuation[w] = 0)
    /\ [][\A w \in Workers :
             /\ (Running(w) /\ pc'[w] = "idle") =>
                   /\ ~busy'[w]
                   /\ continuation'[w] = 0
                   /\ relEvent'[w] = <<startDate[w], endDate[w]>>
                   /\ notify' = notify + 1
             /\ (busy[w] /\ ~busy'[w]) => (Running(w) /\ pc'[w] = "idle")
             /\ (pc[w] = "idle" /\ pc'[w] = "idle") => WorkerState(w)' = WorkerState(w)
         ]_vars

C16_Witness ==
    \E w1, w2 \in Workers :
        /\ RunEnded(w1) /\ splits[w1] # <<>>
        /\ log[w1][Len(log[w1]) - 1] = "insertPage" /\ tries[w1] = MaxFail
        /\ RunEnded(w2) /\ log[w2][Len(log[w2]) - 1] = "insertGrain"
        /\ block[w2].id > block[w1].id

\* C17: the continuation cursor is non-empty only while the Worker is busy
\* and in the Processing phase: it is empty when the Worker is idle and
\* throughout graining, the probes and the first pagination request of every
\* Block carry no cursor, and the tail loop never sends a cursor.
InProcessing(w) == pc[w] \in {"page", "pageDelay"}

CursorConfined(w) ==
    /\ continuation[w] # 0 => busy[w] /\ InProcessing(w)
    /\ (Running(w) /\ ~InProcessing(w)) => req[w].continuation = 0
    /\ (InProcessing(w) /\ Count(log[w], "page") = 1) => req[w].continuation = 0

C17_CursorConfinedToProcessing ==
    /\ \A w \in Workers : CursorConfined(w)
    /\ tailReq.continuation = 0

\* C18: at every graining iteration the cached ascending page equals the
\* first ascending page a fresh request over the current range
\* [startDate, endDate] returns, so every record of it lies in the current
\* range (at the resolution of the request's timestamps).
FreshAscPage(w) ==
    PageOf(Matching(feed, ParseTimestamp(startDate[w]), ParseTimestamp(endDate[w])), 0)

InCurrentRange(w, i) ==
    /\ ParseTimestamp(startDate[w]) <= ParseTimestamp(feed[i])
    /\ ParseTimestamp(feed[i]) <= ParseTimestamp(endDate[w])

C18_CachedProbeIsFresh ==
    \A w \in Workers :
        pc[w] \in {"descProbe", "descDelay"} =>
            /\ ascRes[w].records = FreshAscPage(w)
            /\ \A i \in Range(ascRes[w].records) : InCurrentRange(w, i)

\* C19: Blocks are disjoint: the ranges of two distinct live Blocks (queued,
\* or held by a Worker with the range the Worker has kept) have no date in
\* common, or exactly one, which is the end of one and the start of the other.
HeldBlocks ==
    {[id |-> block[w].id, startDate |-> startDate[w], endDate |-> endDate[w]] :
        w \in {v \in Workers : Running(v)}}

QueuedBlocks ==
    {[id |-> b.id, startDate |-> b.startDate, endDate |-> b.endDate] : b \in queue}

LiveBlocks == QueuedBlocks \cup HeldBlocks

Overlap(a, b) ==
    {d \in Dates : /\ a.startDate <= d /\ d <= a.endDate
                   /\ b.startDate <= d /\ d <= b.endDate}

SharedBoundaryOnly(a, b) ==
    \/ Overlap(a, b) = {}
    \/ Overlap(a, b) = {a.endDate} /\ a.endDate = b.startDate
    \/ Overlap(a, b) = {b.endDate} /\ b.endDate = a.startDate

C19_BlocksDisjoint ==
    \A a, b \in LiveBlocks : a.id # b.id => SharedBoundaryOnly(a, b)

\* C20: unsplittable dense range: a graining iteration whose midpoint is
\* startDate or endDate emits no Split; when it finds the density too high
\* it emits the Release at once, carrying the current [startDate, endDate],
\* without any pagination request. A Split is emitted only by an iteration
\* whose midpoint is strictly inside the range: exactly one, for
\* [midpoint, endDate], and graining goes on over [startDate, midpoint]. A
\* run whose first evaluation finds the density acceptable emits no Split
\* and releases the range it was assigned.
GrainEvaluated(w) ==
    /\ pc[w] = "descProbe"
    /\ Count(log'[w], "insertGrain") = Count(log[w], "insertGrain") + 1

C20_UnsplittableDenseRange ==
    /\ [][\A w \in Workers :
             LET s == startDate[w]
                 e == endDate[w]
                 m == GetMiddleDate(s, e)
             IN  /\ (GrainEvaluated(w) /\ (m = s \/ m = e)) =>
                       /\ splits'[w] = splits[w]
                       /\ queue' = queue
                       /\ pc'[w] \in {"idle", "page"}
                 /\ (GrainEvaluated(w) /\ pc'[w] = "idle") =>
                       /\ m = s \/ m = e
                       /\ relEvent'[w] = <<s, e>>
                       /\ log'[w] = log[w] \o <<"insertGrain", "release">>
                       /\ Count(log'[w], "page") = 0
                 /\ splits'[w] # splits[w] /\ splits'[w] # <<>> =>
                       /\ GrainEvaluated(w)
                       /\ s < m /\ m < e
                       /\ splits'[w] = Append(splits[w], <<m, e>>)
                       /\ startDate'[w] = s /\ endDate'[w] = m
                       /\ pc'[w] = "descProbe"
                       /\ req'[w] = MkRequest("desc", s, m, 0)
                 /\ (GrainEvaluated(w) /\ pc'[w] = "page") =>
                       /\ splits'[w] = splits[w]
                       /\ startDate'[w] = s /\ endDate'[w] = e
         ]_vars
    /\ [](\A w \in Workers :
             /\ (InProcessing(w) /\ Count(log[w], "insertGrain") = 1) =>
                   /\ splits[w] = <<>>
                   /\ <<startDate[w], endDate[w]>> = orig[w]
             /\ (RunEnded(w) /\ splits[w] = <<>>) => relEvent[w] = orig[w])

C20_Witness ==
    \E w \in Workers :
        /\ RunEnded(w)
        /\ Len(splits[w]) >= 1
        /\ Count(log[w], "page") = 0
        /\ relEvent[w] = <<orig[w][1], splits[w][Len(splits[w])][1]>>
        /\ relEvent[w][1] + 1 = relEvent[w][2]

====
